---- MODULE Spec2Model ----
(***************************************************************************)
(* Model of calculate() of teacher-score-web/src/App.tsx: the parser of    *)
(* the tenure records, the month-by-month walk, the ranked allocation of   *)
(* each month and the final summary.                                       *)
(*                                                                         *)
(* Numbers.  Scores are JavaScript numbers.  Every quantity the code adds  *)
(* to a score is a multiple of 1/3840 (baseline/12 * weight), and the      *)
(* tolerance 1e-6 and the 4-decimal rounding are multiples of 1/12000000,  *)
(* so every score is held exactly as an integer count of 1/Scale.          *)
(*                                                                         *)
(* Roles are named by the `code` field of ROLE_INFO:                       *)
(*   CLASS = 班主任, VICE = 副班主任, GRADE = 年级组长, SUBJECT = 科组长,  *)
(*   PREP = 备课组长, MID = 中层干部, DEPT = 学科主任.                     *)
(***************************************************************************)
EXTENDS Integers, Sequences, FiniteSets, TLC

VARIABLES input, pc, entries, error, minYM, monthsTotal, i, roleState,
          candidates, w, monthLog, monthDetails, result

vars == <<input, pc, entries, error, minYM, monthsTotal, i, roleState,
          candidates, w, monthLog, monthDetails, result>>

(* ----- bounds of the inputs ----- *)
MaxLines == 2
Horizon == 15
MaxWide == 6

(* ----- constants and tools ----- *)
Scale == 12000000

ROLE_INFO ==
  [ CLASS   |-> [caps |-> 15 * Scale, baselines |-> <<Scale, (3 * Scale) \div 2>>],
    VICE    |-> [caps |-> 15 * Scale, baselines |-> <<Scale \div 2, (3 * Scale) \div 4>>],
    GRADE   |-> [caps |-> 15 * Scale, baselines |-> <<Scale, (3 * Scale) \div 2>>],
    SUBJECT |-> [caps |-> 15 * Scale, baselines |-> <<Scale, (3 * Scale) \div 2>>],
    PREP    |-> [caps |-> 8 * Scale,  baselines |-> <<Scale \div 2>>],
    MID     |-> [caps |-> 20 * Scale, baselines |-> <<(6 * Scale) \div 5, (3 * Scale) \div 2>>],
    DEPT    |-> [caps |-> 15 * Scale, baselines |-> <<Scale, (3 * Scale) \div 2>>] ]

\* Object.keys(ROLE_INFO), in insertion order
RoleKeys == <<"CLASS", "VICE", "GRADE", "SUBJECT", "PREP", "MID", "DEPT">>

Roles == DOMAIN ROLE_INFO

\* WEIGHTS = [1, 0.5, 0.25, 0.125, 0.0625], in sixteenths
WeightDen == 16
WEIGHTS == <<16, 8, 4, 2, 1>>

CLASS_VICE_COMBO_CAP == 15 * Scale

\* the literal 1e-6 of the cap tests
CapTolerance == Scale \div 1000000

\* the step of toFixed(4)
Quantum == Scale \div 10000

Infinity == 2147483647

\* Property names every object literal inherits from Object.prototype:
\* ROLE_INFO[name] is a truthy value for each of them.
ObjectPrototypeKeys == {"constructor", "toString", "valueOf", "hasOwnProperty"}

Min(a, b) == IF a <= b THEN a ELSE b

\* ymToIndex: only the year and the month of the date are used
ymToIndex(date) == date[1] * 12 + (date[2] - 1)

\* indexToYM: <<year, month>>, printed as YYYY-MM
indexToYM(index) == <<index \div 12, (index % 12) + 1>>

\* end < start on the two strings "YYYY-MM-DD": fixed width, so the
\* comparison is the lexicographic one on <<year, month, day>>
StrLess(a, b) ==
  \/ a[1] < b[1]
  \/ a[1] = b[1] /\ a[2] < b[2]
  \/ a[1] = b[1] /\ a[2] = b[2] /\ a[3] < b[3]

\* x.toFixed(4) converted back by the unary +, for x >= 0
ToFixed4(x) == ((x + Quantum \div 2) \div Quantum) * Quantum

(* ----- input text ----- *)
NoDate == <<0, 0, 0>>
Blank == [kind |-> "blank", role |-> "", start |-> NoDate, end |-> NoDate]
Garbage == [kind |-> "garbage", role |-> "", start |-> NoDate, end |-> NoDate]
Rec(r, s, e) == [kind |-> "record", role |-> r, start |-> s, end |-> e]

dA == <<2000, 1, 1>>
dB == <<2000, 1, 31>>
dM == <<2006, 1, 1>>
dZ == <<2000 + Horizon - 1, 12, 31>>

InputLines ==
  { Blank, Garbage,
    Rec("HEAD", dA, dB), Rec("constructor", dM, dZ), Rec("GRADE", dB, dA),
    Rec("CLASS", dA, dB), Rec("VICE", dA, dB), Rec("VICE", dM, dZ),
    Rec("CLASS", dA, dZ), Rec("VICE", dA, dZ), Rec("GRADE", dA, dZ),
    Rec("MID", dA, dZ), Rec("PREP", dA, dZ) }

\* texts of up to MaxWide records, one role each, all held over the whole
\* horizon: n consecutive roles of the role table, from its s-th on
WideInputs ==
  { [k \in 1..n |-> Rec(RoleKeys[((s + k - 2) % Len(RoleKeys)) + 1], dA, dZ)] :
      s \in 1..Len(RoleKeys), n \in 1..MaxWide }

\* csvText.split(/\r?\n/) has at least one element, also for the empty text
Inputs == UNION { [1..n -> InputLines] : n \in 1..MaxLines } \cup WideInputs

NoError == [type |-> "none", line |-> 0, role |-> ""]
NoResult == [returned |-> FALSE, roleSummary |-> <<>>, totalScore |-> 0, monthDetails |-> <<>>]
NoLog == [ym |-> <<0, 0>>, allocations |-> <<>>]

Init ==
  /\ input \in Inputs
  /\ pc = "parse"
  /\ entries = <<>>
  /\ error = NoError
  /\ minYM = 0
  /\ monthsTotal = 0
  /\ i = 0
  /\ roleState = [r \in Roles |-> [score |-> 0, monthsServed |-> 0, capped |-> FALSE]]
  /\ candidates = <<>>
  /\ w = 0
  /\ monthLog = NoLog
  /\ monthDetails = <<>>
  /\ result = NoResult

(* ----- Record Parser ----- *)
\* .map(l => l.trim()).filter(Boolean)
lines == SelectSeq(input, LAMBDA l : l.kind # "blank")

\* line.match(...) finds the three fields
Matches(line) == line.kind = "record"

\* ROLE_INFO[role] is truthy
RoleFound(role) == role \in Roles \cup ObjectPrototypeKeys

\* the error the callback of lines.map throws for the line at position idx
\* (1-based here, so idx is the code's idx + 1), or NoError
LineError(line, idx) ==
  IF ~Matches(line) THEN [type |-> "ParseError", line |-> idx, role |-> ""]
  ELSE IF ~RoleFound(line.role) THEN [type |-> "UnknownRoleError", line |-> 0, role |-> line.role]
  ELSE IF StrLess(line.end, line.start) THEN [type |-> "InvalidRangeError", line |-> 0, role |-> line.role]
  ELSE NoError

BadLines == {idx \in 1..Len(lines) : LineError(lines[idx], idx) # NoError}

FirstBad == CHOOSE idx \in BadLines : \A j \in BadLines : idx <= j

RECURSIVE SeqMin(_), SeqMax(_)
SeqMin(s) == IF s = <<>> THEN Infinity ELSE Min(Head(s), SeqMin(Tail(s)))
SeqMax(s) == IF s = <<>> THEN -Infinity
             ELSE LET m == SeqMax(Tail(s)) IN IF Head(s) >= m THEN Head(s) ELSE m

ParseFail ==
  /\ pc = "parse"
  /\ BadLines # {}
  /\ error' = LineError(lines[FirstBad], FirstBad)
  /\ pc' = "failed"
  /\ UNCHANGED <<input, entries, minYM, monthsTotal, i, roleState, candidates,
                 w, monthLog, monthDetails, result>>

ParseOk ==
  /\ pc = "parse"
  /\ BadLines = {}
  /\ entries' = [k \in 1..Len(lines) |->
                   [role |-> lines[k].role, start |-> lines[k].start, end |-> lines[k].end]]
  /\ LET lo == SeqMin([k \in 1..Len(lines) |-> ymToIndex(lines[k].start)])
         hi == SeqMax([k \in 1..Len(lines) |-> ymToIndex(lines[k].end)])
     IN /\ minYM' = lo
        /\ monthsTotal' = IF Len(lines) = 0 THEN -Infinity ELSE hi - lo + 1
  /\ pc' = "loop"
  /\ UNCHANGED <<input, error, i, roleState, candidates, w, monthLog,
                 monthDetails, result>>

(* ----- Timeline Expander ----- *)
Linked(role) == role = "CLASS" \/ role = "VICE"

\* roleState[r].capped, also for a name roleState only inherits: the
\* inherited value has no `capped` property, which reads as undefined
IsCapped(rs, r) == IF r \in Roles THEN rs[r].capped ELSE FALSE

\* as Covers, without the test against the end of the tenure
Covers_NoEnd(e, ymIdx) == ymIdx >= ymToIndex(e.start)

Covers(e, ymIdx) == ymIdx >= ymToIndex(e.start) /\ ymIdx <= ymToIndex(e.end)

\* as activeRolesOf, without the filter on the capped flag
activeRolesOf_KeepCapped(es, rs, ymIdx) ==
  LET covering == SelectSeq(es, LAMBDA e : Covers(e, ymIdx))
  IN [k \in 1..Len(covering) |-> covering[k].role]

\* entries.filter(covers).map(e => e.role).filter(r => !roleState[r].capped)
activeRolesOf(es, rs, ymIdx) ==
  LET covering == SelectSeq(es, LAMBDA e : Covers(e, ymIdx))
      roles == [k \in 1..Len(covering) |-> covering[k].role]
  IN SelectSeq(roles, LAMBDA r : ~IsCapped(rs, r))

Occurrences(s, r) == Cardinality({k \in 1..Len(s) : s[k] = r})

\* activeRoles.forEach(r => { roleState[r].monthsServed += 1; })
ServeMonth(rs, active) ==
  [r \in Roles |-> [rs[r] EXCEPT !.monthsServed = @ + Occurrences(active, r)]]

(* ----- Monthly Allocator ----- *)
\* info.baselines[monthsSrv >= 72 && info.baselines.length > 1 ? 1 : 0]
BaselineOf(role, monthsSrv) ==
  LET info == ROLE_INFO[role]
  IN info.baselines[IF monthsSrv >= 72 /\ Len(info.baselines) > 1 THEN 2 ELSE 1]

\* One candidate.  remainingCap is caps - score + 1e-9 in the code; it is
\* read only in the difference b.remainingCap - a.remainingCap of the
\* comparator, where the common 1e-9 cancels, so it is held without it.
CandidateOf(rs, role) ==
  [role |-> role,
   baselinePerMonth |-> BaselineOf(role, rs[role].monthsServed - 1) \div 12,
   remainingCap |-> ROLE_INFO[role].caps - rs[role].score]

\* as Before, without the tie-break on the remaining headroom
Before_NoTieBreak(a, b) == a.baselinePerMonth > b.baselinePerMonth

\* the comparator of candidates.sort is negative: a goes before b
Before(a, b) ==
  \/ a.baselinePerMonth > b.baselinePerMonth
  \/ a.baselinePerMonth = b.baselinePerMonth /\ a.remainingCap > b.remainingCap

\* Array.prototype.sort is stable: x goes before the first element it
\* precedes, after every element it ties with
InsertSorted(s, x) ==
  LET ahead == {k \in 1..Len(s) : Before(x, s[k])}
      pos == IF ahead = {} THEN Len(s) + 1
             ELSE CHOOSE k \in ahead : \A j \in ahead : k <= j
  IN SubSeq(s, 1, pos - 1) \o <<x>> \o SubSeq(s, pos, Len(s))

RECURSIVE SortCandidates(_)
SortCandidates(s) ==
  IF s = <<>> THEN <<>>
  ELSE InsertSorted(SortCandidates(SubSeq(s, 1, Len(s) - 1)), s[Len(s)])

comboScore(rs) == rs["CLASS"].score + rs["VICE"].score

\* as GainOf, without the combined clamp
GainOf_NoComboClamp(rs, role, baselinePerMonth, weight) ==
  (baselinePerMonth * weight) \div WeightDen

\* as GainOf, with the combined headroom taken from the role's own score
GainOf_OwnScoreOnly(rs, role, baselinePerMonth, weight) ==
  LET gain == (baselinePerMonth * weight) \div WeightDen
      remainingCombo == CLASS_VICE_COMBO_CAP - rs[role].score
  IN IF Linked(role)
     THEN IF remainingCombo <= 0 THEN 0 ELSE Min(gain, remainingCombo)
     ELSE gain

\* lines 80-87: the raw gain and the combined clamp of the linked roles
GainOf(rs, role, baselinePerMonth, weight) ==
  LET gain == (baselinePerMonth * weight) \div WeightDen
      remainingCombo == CLASS_VICE_COMBO_CAP - comboScore(rs)
  IN IF Linked(role)
     THEN IF remainingCombo <= 0 THEN 0 ELSE Min(gain, remainingCombo)
     ELSE gain

\* as AllowableOf, without the clamp to the role's own headroom
AllowableOf_NoClamp(rs, role, gain) == gain

\* as AllowableOf, with the operands of the headroom swapped
AllowableOf_Swapped(rs, role, gain) == Min(gain, rs[role].score - ROLE_INFO[role].caps)

\* line 89
AllowableOf(rs, role, gain) == Min(gain, ROLE_INFO[role].caps - rs[role].score)

\* line 90
Credit(rs, role, allowable) == [rs EXCEPT ![role].score = @ + allowable]

\* as ComboCapped, flagging only the role that was credited
ComboCapped_OnlyCredited(rs, role) ==
  IF Linked(role) /\ comboScore(rs) >= CLASS_VICE_COMBO_CAP - CapTolerance
  THEN [rs EXCEPT ![role].capped = TRUE]
  ELSE rs

\* lines 92-98
ComboCapped(rs, role) ==
  IF Linked(role) /\ comboScore(rs) >= CLASS_VICE_COMBO_CAP - CapTolerance
  THEN [rs EXCEPT !["CLASS"].capped = TRUE, !["VICE"].capped = TRUE]
  ELSE rs

\* as OwnCapped, with a strict comparison against the cap itself
OwnCapped_Strict(rs, role) ==
  IF rs[role].score > ROLE_INFO[role].caps
  THEN [rs EXCEPT ![role].capped = TRUE]
  ELSE rs

\* lines 100-102
OwnCapped(rs, role) ==
  IF rs[role].score >= ROLE_INFO[role].caps - CapTolerance
  THEN [rs EXCEPT ![role].capped = TRUE]
  ELSE rs

ymIdxNow == minYM + i

active == activeRolesOf(entries, roleState, ymIdxNow)

\* line 63: no active role, the month is skipped
SkipMonth ==
  /\ pc = "loop"
  /\ i < monthsTotal
  /\ active = <<>>
  /\ i' = i + 1
  /\ UNCHANGED <<input, pc, entries, error, minYM, monthsTotal, roleState,
                 candidates, w, monthLog, monthDetails, result>>

\* lines 65-71 for an active role that ROLE_INFO only inherits: the
\* counters are incremented, then info.baselines is undefined and reading
\* its element throws a TypeError
MonthTypeError ==
  /\ pc = "loop"
  /\ i < monthsTotal
  /\ active # <<>>
  /\ \E k \in 1..Len(active) : active[k] \notin Roles
  /\ roleState' = ServeMonth(roleState, active)
  /\ error' = [type |-> "TypeError", line |-> 0, role |-> ""]
  /\ pc' = "failed"
  /\ UNCHANGED <<input, entries, minYM, monthsTotal, i, candidates, w,
                 monthLog, monthDetails, result>>

\* lines 60-76: the month has active roles; count the month, rank them
BeginMonth ==
  /\ pc = "loop"
  /\ i < monthsTotal
  /\ active # <<>>
  /\ \A k \in 1..Len(active) : active[k] \in Roles
  /\ LET served == ServeMonth(roleState, active)
     IN /\ roleState' = served
        /\ candidates' = SortCandidates([k \in 1..Len(active) |-> CandidateOf(served, active[k])])
  /\ w' = 0
  /\ monthLog' = [ym |-> indexToYM(ymIdxNow), allocations |-> <<>>]
  /\ pc' = "alloc"
  /\ UNCHANGED <<input, entries, error, minYM, monthsTotal, i, monthDetails, result>>

\* lines 77-106: one turn of the inner loop; the last turn of the month
\* pushes the month's log and moves to the next month
Allocate ==
  /\ pc = "alloc"
  /\ w < Len(WEIGHTS) /\ w < Len(candidates)
  /\ LET role == candidates[w + 1].role
         weight == WEIGHTS[w + 1]
         gain == GainOf(roleState, role, candidates[w + 1].baselinePerMonth, weight)
         allowable == AllowableOf(roleState, role, gain)
         credited == Credit(roleState, role, allowable)
         log == [monthLog EXCEPT !.allocations =
                   Append(@, [role |-> role, weight |-> weight, gain |-> ToFixed4(allowable)])]
     IN /\ roleState' = OwnCapped(ComboCapped(credited, role), role)
        /\ monthLog' = log
        /\ w' = w + 1
        /\ IF w + 1 < Len(WEIGHTS) /\ w + 1 < Len(candidates)
           THEN UNCHANGED <<pc, i, monthDetails>>
           ELSE /\ pc' = "loop"
                /\ i' = i + 1
                /\ monthDetails' = Append(monthDetails, log)
  /\ UNCHANGED <<input, entries, error, minYM, monthsTotal, candidates, result>>

(* ----- Aggregator ----- *)
\* line 109
roleSummaryOf(rs) ==
  [k \in 1..Len(RoleKeys) |->
     [role |-> RoleKeys[k], score |-> ToFixed4(rs[RoleKeys[k]].score),
      cap |-> ROLE_INFO[RoleKeys[k]].caps, capped |-> rs[RoleKeys[k]].capped]]

RECURSIVE SumScores(_)
SumScores(s) == IF s = <<>> THEN 0 ELSE Head(s).score + SumScores(Tail(s))

\* as resultOf, with the total rounded from the raw running scores
resultOf_RawTotal(rs, details) ==
  [returned |-> TRUE, roleSummary |-> roleSummaryOf(rs),
   totalScore |-> ToFixed4(SumScores([k \in 1..Len(RoleKeys) |-> rs[RoleKeys[k]]])),
   monthDetails |-> details]

\* lines 109-111
resultOf(rs, details) ==
  LET roleSummary == roleSummaryOf(rs)
  IN [returned |-> TRUE, roleSummary |-> roleSummary,
      totalScore |-> ToFixed4(SumScores(roleSummary)),
      monthDetails |-> details]

\* the month loop is over: build and return the result
Finish ==
  /\ pc = "loop"
  /\ ~(i < monthsTotal)
  /\ result' = resultOf(roleState, monthDetails)
  /\ pc' = "done"
  /\ UNCHANGED <<input, entries, error, minYM, monthsTotal, i, roleState,
                 candidates, w, monthLog, monthDetails>>

Next ==
  \/ ParseFail
  \/ ParseOk
  \/ SkipMonth
  \/ MonthTypeError
  \/ BeginMonth
  \/ Allocate
  \/ Finish

Spec == Init /\ [][Next]_vars

(* ======================= properties ======================= *)

InitialRoleState == [r \in Roles |-> [score |-> 0, monthsServed |-> 0, capped |-> FALSE]]

EntriesOf(r) == {k \in DOMAIN entries : entries[k].role = r}

\* C1: at every point of the walk and in the returned summary, each role's
\* score is at least 0 and at most its cap (tolerance 1e-6).
C1_ScoreWithinCap ==
  /\ \A r \in Roles :
       /\ roleState[r].score >= 0
       /\ roleState[r].score <= ROLE_INFO[r].caps + CapTolerance
  /\ result.returned =>
       \A k \in DOMAIN result.roleSummary :
         /\ result.roleSummary[k].score >= 0
         /\ result.roleSummary[k].score <= result.roleSummary[k].cap + CapTolerance

\* a result was returned in which a role held by two records at once has
\* been stopped exactly at its cap
C1_Witness ==
  /\ result.returned
  /\ \E r \in Roles :
       /\ ~Linked(r)
       /\ Cardinality(EntriesOf(r)) >= 2
       /\ roleState[r].score = ROLE_INFO[r].caps
       /\ roleState[r].capped

\* C2: at every point of the walk the scores of CLASS and VICE add up to at
\* most 15 (tolerance 1e-6).
C2_ComboWithinCap ==
  comboScore(roleState) <= CLASS_VICE_COMBO_CAP + CapTolerance

\* both linked roles have scored, the sum stands at the combined cap and
\* neither has reached its own cap
C2_Witness ==
  /\ comboScore(roleState) = CLASS_VICE_COMBO_CAP
  /\ roleState["CLASS"].score > 0 /\ roleState["CLASS"].score < ROLE_INFO["CLASS"].caps
  /\ roleState["VICE"].score > 0 /\ roleState["VICE"].score < ROLE_INFO["VICE"].caps

\* C3: an input without any record ends in an EmptyInputError and no
\* result is returned.
C3_EmptyInputRejected ==
  (lines = <<>> /\ pc \in {"done", "failed"}) =>
     (error.type = "EmptyInputError" /\ ~result.returned)

\* C4: the roles ranked in a month are pairwise distinct, so a role gets at
\* most one allocation event in the month and its months-served counter
\* grows by exactly 1.
C4_ActiveRolesDistinct ==
  /\ \A a, b \in DOMAIN candidates : a # b => candidates[a].role # candidates[b].role
  /\ \A a, b \in DOMAIN monthLog.allocations :
       a # b => monthLog.allocations[a].role # monthLog.allocations[b].role

\* what the parser is to reject in a non-blank line
Offending(line) ==
  \/ line.kind = "garbage"
  \/ line.kind = "record" /\ (line.role \notin Roles \/ StrLess(line.end, line.start))

OffendingLines == {k \in DOMAIN lines : Offending(lines[k])}

FirstOffending == lines[CHOOSE k \in OffendingLines : \A j \in OffendingLines : k <= j]

ExpectedErrorType ==
  IF FirstOffending.kind = "garbage" THEN "ParseError"
  ELSE IF FirstOffending.role \notin Roles THEN "UnknownRoleError"
  ELSE "InvalidRangeError"

\* C5: with a malformed line, a role outside the 7 defined ones or an end
\* date before its start date, the run fails with the error of the first
\* such line, returns no result and allocates no month.
C5_FailFast ==
  OffendingLines # {} =>
    /\ ~result.returned
    /\ pc \notin {"alloc", "done"}
    /\ monthDetails = <<>>
    /\ roleState = InitialRoleState
    /\ pc = "failed" =>
         /\ error.type = ExpectedErrorType
         /\ error.role = FirstOffending.role

\* C6: a capped flag stays true; a role capped when a month starts is not
\* ranked in that month and its state is left alone, and within a month
\* no counter moves and only the ranked role of the step gains or gets an
\* event.
C6_CappedIsFinal ==
  [][ /\ \A r \in Roles : roleState[r].capped => roleState'[r].capped
      /\ pc = "loop" =>
           \A r \in Roles : roleState[r].capped =>
             /\ roleState'[r] = roleState[r]
             /\ pc' = "alloc" => \A k \in DOMAIN candidates' : candidates'[k].role # r
      /\ pc = "alloc" =>
           /\ candidates' = candidates
           /\ \A r \in Roles :
                /\ roleState'[r].monthsServed = roleState[r].monthsServed
                /\ roleState'[r].score # roleState[r].score => r = candidates[w + 1].role
           /\ monthLog'.allocations =
                Append(monthLog.allocations, monthLog'.allocations[w + 1])
           /\ monthLog'.allocations[w + 1].role = candidates[w + 1].role
    ]_vars

\* a month starts that a record of an already capped role still covers
C6_Witness ==
  /\ pc = "loop"
  /\ i < monthsTotal
  /\ \E r \in Roles :
       /\ roleState[r].capped
       /\ \E k \in EntriesOf(r) : Covers(entries[k], ymIdxNow)

\* C7: once the combined score of CLASS and VICE has reached 15 (within
\* 1e-6) both capped flags are set, from the step that reached it on, and
\* the two flags are equal in every state.
C7_LinkedCappedTogether ==
  /\ comboScore(roleState) >= CLASS_VICE_COMBO_CAP - CapTolerance =>
       (roleState["CLASS"].capped /\ roleState["VICE"].capped)
  /\ roleState["CLASS"].capped = roleState["VICE"].capped

\* the allocation step that has just credited CLASS brought the sum to 15
\* and VICE, not credited and far below its own cap, is capped with it
C7_Witness ==
  /\ pc = "alloc"
  /\ w = 1
  /\ candidates[1].role = "CLASS"
  /\ comboScore(roleState) = CLASS_VICE_COMBO_CAP
  /\ roleState["CLASS"].score < ROLE_INFO["CLASS"].caps - CapTolerance
  /\ roleState["VICE"].score < ROLE_INFO["VICE"].caps - CapTolerance
  /\ roleState["VICE"].score > 0
  /\ roleState["CLASS"].capped /\ roleState["VICE"].capped

\* the line number the first line that fails the pattern has in the text
RawLineOfFirstGarbage ==
  CHOOSE k \in DOMAIN input :
    /\ input[k].kind = "garbage"
    /\ \A j \in DOMAIN input : input[j].kind = "garbage" => k <= j

\* C8: a ParseError names the 1-based number the malformed line has in the
\* raw input text.
C8_ParseErrorRawLine ==
  error.type = "ParseError" => error.line = RawLineOfFirstGarbage

\* C9: no step lowers a role's score, and every recorded gain is >= 0.
C9_ScoreMonotone ==
  [][ /\ \A r \in Roles : roleState'[r].score >= roleState[r].score
      /\ \A k \in DOMAIN monthLog'.allocations : monthLog'.allocations[k].gain >= 0
    ]_vars

\* a linked role was ranked after the sum had reached 15: its gain is
\* clamped to exactly 0 and recorded, after a positive gain of the other
C9_Witness ==
  /\ Len(monthLog.allocations) = 2
  /\ monthLog.allocations[1].gain > 0
  /\ Linked(monthLog.allocations[2].role)
  /\ monthLog.allocations[2].gain = 0

\* C10: the returned summary has one entry per defined role, in the order
\* of the role table, each with the 4-decimal rounding of the role's score,
\* and totalScore is the 4-decimal rounding of the sum of these rounded
\* scores.
C10_TotalOfRounded ==
  result.returned =>
    /\ Len(result.roleSummary) = 7
    /\ \A k \in DOMAIN result.roleSummary :
         /\ result.roleSummary[k].role = RoleKeys[k]
         /\ result.roleSummary[k].score = ToFixed4(roleState[RoleKeys[k]].score)
    /\ {result.roleSummary[k].role : k \in DOMAIN result.roleSummary} = Roles
    /\ result.totalScore = ToFixed4(SumScores(result.roleSummary))

\* a returned total that differs from the rounding of the sum of the raw
\* scores, with a role of score 0 in the summary
C10_Witness ==
  /\ result.returned
  /\ result.totalScore #
       ToFixed4(SumScores([k \in 1..Len(RoleKeys) |-> roleState[RoleKeys[k]]]))
  /\ \E k \in DOMAIN result.roleSummary : result.roleSummary[k].score = 0

\* the months before the current one that a record of role r covers; a
\* role that is ranked now was not capped in any of them
PriorMonths(r) ==
  Cardinality({m \in minYM..(ymIdxNow - 1) :
                 \E k \in EntriesOf(r) :
                   ymToIndex(entries[k].start) <= m /\ m <= ymToIndex(entries[k].end)})

\* C11: the baseline of a ranked role is its second one if and only if the
\* role was active and uncapped in at least 72 earlier months and has two
\* baselines, otherwise its first one.
C11_TierByPriorMonths ==
  pc = "alloc" =>
    \A k \in DOMAIN candidates :
      LET r == candidates[k].role
          tier == IF PriorMonths(r) >= 72 /\ Len(ROLE_INFO[r].baselines) > 1 THEN 2 ELSE 1
      IN candidates[k].baselinePerMonth = ROLE_INFO[r].baselines[tier] \div 12

RECURSIVE Pow2(_)
Pow2(n) == IF n = 0 THEN 1 ELSE 2 * Pow2(n - 1)

\* the events so far carry the weights 1, 1/2, 1/4, 1/8, 1/16 in list
\* order and belong to the ranked roles in rank order; there are at most
\* min(5, candidates) of them, and exactly that many once the month is over
C12_EventsFollowRank ==
  /\ Len(monthLog.allocations) <= 5
  /\ Len(monthLog.allocations) <= Len(candidates)
  /\ pc # "alloc" =>
       Len(monthLog.allocations) = (IF Len(candidates) < 5 THEN Len(candidates) ELSE 5)
  /\ \A k \in DOMAIN monthLog.allocations :
       /\ monthLog.allocations[k].weight * Pow2(k - 1) = WeightDen
       /\ monthLog.allocations[k].role = candidates[k].role

\* the ranking: a higher per-month baseline, or an equal one with more
\* headroom, is never placed behind; the headroom is cap - score as the
\* month starts
C12_RankOrder ==
  /\ \A a, b \in DOMAIN candidates :
       (\/ candidates[a].baselinePerMonth > candidates[b].baselinePerMonth
        \/ /\ candidates[a].baselinePerMonth = candidates[b].baselinePerMonth
           /\ candidates[a].remainingCap > candidates[b].remainingCap) => a < b
  /\ (pc = "alloc" /\ w = 0) =>
       \A k \in DOMAIN candidates :
         candidates[k].remainingCap =
           ROLE_INFO[candidates[k].role].caps - roleState[candidates[k].role].score

\* C12: in every month the events carry the weights 1, 0.5, 0.25, 0.125,
\* 0.0625 in list order, there are min(5, candidates) of them, they follow
\* the ranking (higher baseline first, then more headroom), and a role
\* ranked 6th or lower gets no event and no gain.
C12_WeightsByRank ==
  /\ [](C12_EventsFollowRank /\ C12_RankOrder)
  /\ [][ pc = "alloc" =>
           \A r \in Roles : roleState'[r].score # roleState[r].score =>
             \E k \in 1..5 : k <= Len(candidates) /\ candidates[k].role = r ]_vars

\* a month of six ranked roles is over with five events, and a role with
\* more headroom stands ahead of one of equal baseline that the input
\* lists before it
C12_Witness ==
  /\ pc = "loop"
  /\ Len(candidates) >= 6
  /\ Len(monthLog.allocations) = 5
  /\ \E a, b \in DOMAIN candidates :
       /\ a < b
       /\ candidates[a].baselinePerMonth = candidates[b].baselinePerMonth
       /\ candidates[a].remainingCap > candidates[b].remainingCap
       /\ \E x, y \in DOMAIN entries :
            x > y /\ entries[x].role = candidates[a].role
                  /\ entries[y].role = candidates[b].role

\* the gain the candidate at rank w + 1 is due, from the scores as they
\* stand when it is processed
DueGain ==
  LET c == candidates[w + 1]
      raw == (c.baselinePerMonth * WEIGHTS[w + 1]) \div WeightDen
      left == 15 * Scale - (roleState["CLASS"].score + roleState["VICE"].score)
      g == IF c.role \in {"CLASS", "VICE"}
           THEN (IF left <= 0 THEN 0 ELSE (IF raw <= left THEN raw ELSE left))
           ELSE raw
      room == ROLE_INFO[c.role].caps - roleState[c.role].score
  IN IF g <= room THEN g ELSE room

\* C13 as stated: each allocation step credits the due gain to the role
\* and records one event whose gain equals it.
C13_GainAsClaimed ==
  [][ pc = "alloc" =>
        LET r == candidates[w + 1].role
        IN /\ roleState'[r].score = roleState[r].score + DueGain
           /\ Len(monthLog'.allocations) = Len(monthLog.allocations) + 1
           /\ monthLog'.allocations[w + 1].role = r
           /\ monthLog'.allocations[w + 1].gain = DueGain ]_vars

\* C13, amended: each allocation step credits the due gain to the role and
\* records one event, also for a gain of 0, whose gain is the due gain
\* rounded to 4 decimals.
C13_GainRounded ==
  [][ pc = "alloc" =>
        LET r == candidates[w + 1].role
            logged == monthLog'.allocations[w + 1].gain
        IN /\ roleState'[r].score = roleState[r].score + DueGain
           /\ Len(monthLog'.allocations) = Len(monthLog.allocations) + 1
           /\ monthLog'.allocations[w + 1].role = r
           /\ logged % Quantum = 0
           /\ 2 * logged - Quantum <= 2 * DueGain
           /\ 2 * DueGain < 2 * logged + Quantum ]_vars

\* a month is over in which CLASS, ranked first, was cut to the combined
\* headroom, below its raw gain, and VICE after it got an event of gain 0
C13_Witness ==
  /\ pc = "loop"
  /\ Len(monthLog.allocations) = 2
  /\ monthLog.allocations[1].role = "CLASS"
  /\ monthLog.allocations[1].gain > 0
  /\ monthLog.allocations[1].gain + Quantum < candidates[1].baselinePerMonth
  /\ monthLog.allocations[2].role = "VICE"
  /\ monthLog.allocations[2].gain = 0
  /\ comboScore(roleState) = CLASS_VICE_COMBO_CAP

\* the month index a logged <<year, month>> stands for
YmIndex(ym) == ym[1] * 12 + (ym[2] - 1)

\* the month about to be processed has a record of a role that is not capped
MonthHasActive ==
  \E k \in DOMAIN entries :
    /\ ymToIndex(entries[k].start) <= minYM + i
    /\ minYM + i <= ymToIndex(entries[k].end)
    /\ entries[k].role \in Roles => ~roleState[entries[k].role].capped

\* the logged months are strictly ascending and lie in the range walked so far
C14_LoggedMonthsAscending ==
  /\ \A k \in DOMAIN monthDetails :
       /\ minYM <= YmIndex(monthDetails[k].ym)
       /\ YmIndex(monthDetails[k].ym) < minYM + i
       /\ monthDetails[k].allocations # <<>>
  /\ \A k \in DOMAIN monthDetails :
       k > 1 => YmIndex(monthDetails[k - 1].ym) < YmIndex(monthDetails[k].ym)

\* C14: in a run that does not fail, every month of the range with an
\* active uncapped role gets exactly one entry of monthDetails, under its
\* own year and month, every other month gets none and leaves all role
\* state unchanged, and the entries are in strictly ascending month order.
C14_OneEntryPerActiveMonth ==
  /\ []C14_LoggedMonthsAscending
  /\ [][ /\ (pc = "loop" /\ i < monthsTotal /\ pc' # "failed") =>
              IF MonthHasActive
              THEN /\ pc' = "alloc"
                   /\ YmIndex(monthLog'.ym) = minYM + i
                   /\ monthLog'.ym[2] \in 1..12
                   /\ monthDetails' = monthDetails
                   /\ i' = i
              ELSE /\ pc' = "loop"
                   /\ i' = i + 1
                   /\ roleState' = roleState
                   /\ monthDetails' = monthDetails
         /\ (pc = "alloc" /\ pc' = "alloc") =>
              (monthDetails' = monthDetails /\ i' = i /\ monthLog'.ym = monthLog.ym)
         /\ (pc = "alloc" /\ pc' = "loop") =>
              /\ monthDetails' = Append(monthDetails, monthLog')
              /\ monthLog'.ym = monthLog.ym
              /\ i' = i + 1
         /\ pc' = "done" =>
              (i >= monthsTotal /\ result'.monthDetails = monthDetails) ]_vars

\* a result whose months have a gap: a month of the range without any
\* active role lies between two logged months
C14_Witness ==
  /\ result.returned
  /\ \E k \in DOMAIN result.monthDetails :
       /\ k + 1 \in DOMAIN result.monthDetails
       /\ YmIndex(result.monthDetails[k + 1].ym) > YmIndex(result.monthDetails[k].ym) + 1
  /\ Len(result.monthDetails) < monthsTotal

\* role r has reached its own cap or, for a linked role, the two linked
\* roles have reached the combined cap (within 1e-6)
LimitReached(r) ==
  \/ roleState[r].score >= ROLE_INFO[r].caps - CapTolerance
  \/ /\ r \in {"CLASS", "VICE"}
     /\ roleState["CLASS"].score + roleState["VICE"].score >= 15 * Scale - CapTolerance

\* C15: between two months and in the returned summary a role's capped
\* flag is true if and only if the role has reached one of its limits.
C15_CappedIffLimit ==
  /\ pc \in {"loop", "done"} =>
       \A r \in Roles : roleState[r].capped <=> LimitReached(r)
  /\ result.returned =>
       \A k \in DOMAIN result.roleSummary :
         result.roleSummary[k].capped <=> LimitReached(result.roleSummary[k].role)

\* a result with a role flagged at its own cap, a linked role flagged
\* below its own cap, and roles left unflagged
C15_Witness ==
  /\ result.returned
  /\ \E r \in Roles \ {"CLASS", "VICE"} :
       roleState[r].capped /\ roleState[r].score = ROLE_INFO[r].caps
  /\ roleState["VICE"].capped
  /\ roleState["VICE"].score > 0
  /\ roleState["VICE"].score < ROLE_INFO["VICE"].caps - CapTolerance
  /\ \E r \in Roles : ~roleState[r].capped

\* C16: the total of a returned result is at most 30, the cap the result
\* card and the export row show for it.
C16_TotalWithin30 ==
  result.returned => result.totalScore <= 30 * Scale

====
